---- MODULE Spec2Model ----
(***************************************************************************)
(* A model of music21's corpus package front end (corpus/__init__.py):     *)
(* getComposer, getVirtualWorkList, getWorkReferences and getWork, over a  *)
(* corpus whose path listings and virtual-work registry are drawn from     *)
(* small universes.                                                        *)
(*                                                                         *)
(* Python strings are sequences of one-character strings, so that lower(), *)
(* split(), replace(), endswith(), "in" and the ordering used by sort()    *)
(* are computed character by character as Python computes them.  Display   *)
(* names that the code only stores and compares for equality (a composer's *)
(* full name) are kept as opaque strings.                                  *)
(***************************************************************************)
EXTENDS Integers, Sequences, FiniteSets, TLC

(***************************************************************************)
(* Characters and their code points (the order Python compares strings by) *)
(***************************************************************************)
LowerChars == <<"a","b","c","d","e","f","g","h","i","j","k","l","m",
                "n","o","p","q","r","s","t","u","v","w","x","y","z">>
UpperChars == <<"A","B","C","D","E","F","G","H","I","J","K","L","M",
                "N","O","P","Q","R","S","T","U","V","W","X","Y","Z">>
DigitChars == <<"0","1","2","3","4","5","6","7","8","9">>

IndexIn(seq, c) == CHOOSE i \in 1..Len(seq) : seq[i] = c
IsIn(seq, c) == \E i \in 1..Len(seq) : seq[i] = c
Punctuation == { " ", "&", ".", "/", ":", "=", "?" }
Chars ==
    { LowerChars[i] : i \in 1..26 } \cup { UpperChars[i] : i \in 1..26 }
        \cup { DigitChars[i] : i \in 1..10 } \cup Punctuation

\* ord(c), c.lower() and c.upper() of every character
CodeTable ==
    [ c \in Chars |->
        IF IsIn(UpperChars, c) THEN 64 + IndexIn(UpperChars, c)
        ELSE IF IsIn(LowerChars, c) THEN 96 + IndexIn(LowerChars, c)
        ELSE IF IsIn(DigitChars, c) THEN 47 + IndexIn(DigitChars, c)
        ELSE CASE c = " " -> 32
               [] c = "&" -> 38
               [] c = "." -> 46
               [] c = "/" -> 47
               [] c = ":" -> 58
               [] c = "=" -> 61
               [] c = "?" -> 63 ]
LowerChTable ==
    [ c \in Chars |-> IF IsIn(UpperChars, c) THEN LowerChars[IndexIn(UpperChars, c)] ELSE c ]
UpperChTable ==
    [ c \in Chars |-> IF IsIn(LowerChars, c) THEN UpperChars[IndexIn(LowerChars, c)] ELSE c ]

Code(c) == CodeTable[c]
LowerCh(c) == LowerChTable[c]
UpperCh(c) == UpperChTable[c]
IsLowerCh(c) == UpperChTable[c] # c
IsUpperCh(c) == LowerChTable[c] # c
IsDigitCh(c) == CodeTable[c] \in 48..57
IsAlphaCh(c) == IsLowerCh(c) \/ IsUpperCh(c)

(***************************************************************************)
(* Python's str and list operations                                        *)
(***************************************************************************)
\* s.lower(), character by character
LowerOf(s) == [i \in 1..Len(s) |-> LowerChTable[s[i]]]

\* s[i:j] with 0-based Python bounds 0 <= i <= j <= len(s)
Slice(s, i, j) == IF j <= i THEN <<>> ELSE SubSeq(s, i + 1, j)

\* s.startswith(p), s.endswith(p)
StartsWith(s, p) == Len(p) <= Len(s) /\ SubSeq(s, 1, Len(p)) = p
EndsWith(s, p) == Len(p) <= Len(s) /\ SubSeq(s, Len(s) - Len(p) + 1, Len(s)) = p

\* sub in s
Contains(s, sub) ==
    \E i \in 1..(Len(s) - Len(sub) + 1) : \A k \in 1..Len(sub) : s[i + k - 1] = sub[k]

\* s.split(sep) for a non-empty sep: the pieces between the non-overlapping
\* occurrences of sep, found left to right; always at least one piece.
\* hits holds the positions at which sep occurs, from the position reached
RECURSIVE SplitAt(_, _, _, _)
SplitAt(s, width, hits, from) ==
    LET later == { h \in hits : h >= from }
    IN  IF later = {} THEN << SubSeq(s, from, Len(s)) >>
        ELSE LET i == CHOOSE h \in later : \A j \in later : h <= j
             IN  << SubSeq(s, from, i - 1) >> \o SplitAt(s, width, later, i + width)
SplitOf(s, sep) ==
    SplitAt(s, Len(sep),
            { i \in 1..(Len(s) - Len(sep) + 1) :
                \A k \in 1..Len(sep) : s[i + k - 1] = sep[k] },
            1)

\* sep.join(parts)
RECURSIVE Join(_, _)
Join(parts, sep) ==
    IF Len(parts) = 0 THEN <<>>
    ELSE IF Len(parts) = 1 THEN parts[1]
    ELSE parts[1] \o sep \o Join(Tail(parts), sep)

\* a < b for two strings: lexicographic by code point, a proper prefix first
StrLess(a, b) ==
    LET n == IF Len(a) < Len(b) THEN Len(a) ELSE Len(b)
        diffs == { k \in 1..n : a[k] # b[k] }
    IN  IF diffs = {} THEN Len(a) < Len(b)
        ELSE LET k == CHOOSE k \in diffs : \A j \in diffs : k <= j
             IN  Code(a[k]) < Code(b[k])

StrLeq(a, b) == a = b \/ StrLess(a, b)

\* list.sort() on a list of strings (insertion into an ascending list)
RECURSIVE InsertStr(_, _)
InsertStr(sorted, x) ==
    IF Len(sorted) = 0 THEN << x >>
    ELSE IF StrLess(x, sorted[1]) THEN << x >> \o sorted
    ELSE << sorted[1] >> \o InsertStr(Tail(sorted), x)
RECURSIVE SortStrs(_)
SortStrs(seq) ==
    IF Len(seq) = 0 THEN <<>>
    ELSE InsertStr(SortStrs(SubSeq(seq, 1, Len(seq) - 1)), seq[Len(seq)])

IsSortedStrs(seq) == \A i \in 1..(Len(seq) - 1) : StrLeq(seq[i], seq[i + 1])

\* the elements of a list, and the number of times x occurs in it
Elems(seq) == { seq[i] : i \in 1..Len(seq) }
Count(seq, x) == Cardinality({ i \in 1..Len(seq) : seq[i] = x })


\* Python's None, as an argument or a field
None == << "None" >>

(***************************************************************************)
(* Words the corpus of the model is written with                           *)
(***************************************************************************)
SEP == << "/" >>
DOT == << "." >>
W_bach == << "b","a","c","h" >>
W_Bach == << "B","a","c","h" >>
W_cpebach == << "c","p","e","b","a","c","h" >>
W_ciconia == << "c","i","c","o","n","i","a" >>
W_satie == << "s","a","t","i","e" >>
W_airs == << "a","i","r","s" >>
W_air == << "a","i","r" >>
W_bwv == << "b","w","v" >>
W_myAir == << "m","y","A","i","r" >>
W_movement1 == << "m","o","v","e","m","e","n","t","1" >>
W_xml == << "x","m","l" >>
W_mxl == << "m","x","l" >>
W_krn == << "k","r","n" >>
W_root == << "c" >>
W_home == << "u" >>
W_host == << "h",":" >>

\* name.ext
File(name, ext) == name \o DOT \o ext
\* an absolute path of the core corpus, and one of a user's directory
CorePath(segs) == SEP \o W_root \o SEP \o Join(segs, SEP)
LocalPath(segs) == SEP \o W_home \o SEP \o Join(segs, SEP)
\* a URL of a remotely hosted file
Url(segs) == W_host \o SEP \o SEP \o Join(segs, SEP)

(***************************************************************************)
(* Bounds of the model                                                     *)
(***************************************************************************)
\* the most files a core listing holds
MaxCorePaths == 2
\* the most files a local listing holds
MaxLocalPaths == 1
\* the most virtual works the registry holds
MaxVirtual == 2
\* the most calls of getWorkReferences in one session
MaxCalls == 2

(***************************************************************************)
(* The corpus: registries and the listings of the three path domains       *)
(***************************************************************************)
\* COMPOSERS, three rows of the table in the table's order
COMPOSERS ==
    << << W_bach, "Johann Sebastian Bach" >>,
       << W_cpebach, "C.P.E. Bach" >>,
       << W_ciconia, "Johannes Ciconia" >> >>

\* the files a core corpus may hold, in the order its directory walk lists them
CorePathUniverse ==
    << CorePath(<< W_bach, File(W_bwv, W_xml) >>),
       CorePath(<< W_cpebach, File(W_bwv, W_mxl) >>),
       CorePath(<< W_bach, File(W_bwv, W_mxl) >>),
       CorePath(<< W_bach, W_bwv, File(W_movement1, W_mxl) >>),
       CorePath(<< W_airs, File(W_bach, W_krn) >>),
       CorePath(<< W_Bach, File(W_myAir, W_krn) >>),
       CorePath(<< W_bach, W_myAir, File(W_bach, W_mxl) >>) >>

\* the files the user's local directories may hold
LocalPathUniverse ==
    << LocalPath(<< W_bach, File(W_air, W_krn) >>) >>

\* the virtual works the virtual module may define
VirtualUniverse ==
    << [ corpusPath |-> W_bach \o SEP \o W_bwv,
         composer |-> "Johann Sebastian Bach",
         title |-> << "S","u","i","t","e" >>,
         urlList |-> << Url(<< File(W_bwv, W_xml) >>),
                        Url(<< File(W_air, W_krn) >>) >> ],
       [ corpusPath |-> W_satie \o SEP \o W_air,
         composer |-> "Erik Satie",
         title |-> << "A","i","r" >>,
         urlList |-> << Url(<< W_satie, File(W_air, W_krn) >>) >> ],
       [ corpusPath |-> W_bach \o SEP \o W_air \o SEP \o W_bwv,
         composer |-> "C.P.E. Bach",
         title |-> << "T","u","n","e","s" >>,
         urlList |-> << Url(<< W_bach, File(W_air, W_mxl) >>),
                        Url(<< W_bach, File(W_air, W_xml) >>) >> ] >>

\* the same with a further work of a composer the table does not hold, filed
\* under the directory of another such work but under another name
VirtualUniverseRefs ==
    VirtualUniverse \o
    << [ corpusPath |-> W_satie \o SEP \o W_bwv,
         composer |-> "E. Satie",
         title |-> << "G","y","m" >>,
         urlList |-> << Url(<< W_satie, File(W_bwv, W_mxl) >>) >> ] >>

\* every URL of every virtual work of a list, in the list's order
RECURSIVE AllUrls(_)
AllUrls(works) ==
    IF Len(works) = 0 THEN <<>> ELSE works[1].urlList \o AllUrls(Tail(works))

\* s.lower()
Lower(s) == LowerOf(s)

\* s.split(sep)
Split(s, sep) == SplitOf(s, sep)

\* s.replace(old, new) for a non-empty old
Replace(s, old, new) == Join(Split(s, old), new)

\* the sub-lists of a list that keep its order and hold at most n elements
RECURSIVE Pick(_, _, _)
Pick(seq, idx, i) ==
    IF i > Len(seq) THEN <<>>
    ELSE (IF i \in idx THEN << seq[i] >> ELSE <<>>) \o Pick(seq, idx, i + 1)
SubLists(seq, n) ==
    { Pick(seq, idx, 1) : idx \in { x \in SUBSET (1..Len(seq)) : Cardinality(x) <= n } }

\* the lists of at most n distinct elements of a list, in any order
Arrangements(seq, n) ==
    { a \in UNION { [1..k -> Elems(seq)] : k \in 0..n } :
        \A i, j \in DOMAIN a : i # j => a[i] # a[j] }

VARIABLES
    corePaths,     \* what CoreCorpus().getPaths() lists with no extension filter
    localPaths,    \* what LocalCorpus().getPaths() lists with no extension filter
    VIRTUAL,       \* the module-level list of virtual works
    call,          \* the running or last call: its operation and arguments
    ret,           \* what that call returned or raised
    history,       \* the earlier calls of the session, each with its outcome
    frames,        \* the getWork frames the last call ran: 1 and one per retry
    pathsLocalTemp,        \* _pathsLocalTemp: the directories added in this session
    pathsCache,            \* _pathsCache: the cached listings, by (domain, extensions)
    localCorpusSettings    \* environLocal['localCorpusSettings']

vars == << corePaths, localPaths, VIRTUAL, call, ret, history, frames,
           pathsLocalTemp, pathsCache, localCorpusSettings >>
corpus == << corePaths, localPaths, VIRTUAL >>
\* the session's registry of local directories and the cache of listings
registry == << pathsLocalTemp, pathsCache, localCorpusSettings >>

(***************************************************************************)
(* Argument values: Python's None, a string, a list, an integer            *)
(***************************************************************************)
PyNone == [ t |-> "none", v |-> None ]
Str(s) == [ t |-> "str", v |-> s ]
List(l) == [ t |-> "list", v |-> l ]
PyInt(n) == [ t |-> "int", v |-> n ]
\* common.isListLike(x)
isListLike(x) == x.t = "list"

(***************************************************************************)
(* Extension Policy and the format detector                                *)
(***************************************************************************)
\* the extensions the format detector knows, with the format of each
KnownExtensions == { W_xml, W_mxl, W_krn }
FormatOf(ext) == IF ext \in { W_xml, W_mxl } THEN << "musicxml" >> ELSE << "humdrum" >>

\* an extension token without its leading dot, in lower case
NormalizeExt(e) == Lower(IF StartsWith(e, DOT) THEN Tail(e) ELSE e)

\* the extensions one requested token stands for: None is every known
\* extension, a token of a format is every extension of that format
ExpandOne(e) ==
    IF e = None THEN KnownExtensions
    ELSE IF NormalizeExt(e) \in KnownExtensions
         THEN { x \in KnownExtensions : FormatOf(x) = FormatOf(NormalizeExt(e)) }
         ELSE { NormalizeExt(e) }
\* the extensions a list of requested tokens stands for
Expand(extList) == UNION { ExpandOne(extList[i]) : i \in 1..Len(extList) }

\* what follows the last dot of a name, or None for a name without a dot
LastDotGroup(name) ==
    LET groups == Split(name, DOT)
    IN  IF Len(groups) > 1 THEN groups[Len(groups)] ELSE None

\* common.findFormatExtFile(name): the format and the dotted extension of a
\* file name, or None and None when the extension is not a known one
findFormatExtFile(name) ==
    IF LastDotGroup(name) \in KnownExtensions
    THEN [ format |-> FormatOf(LastDotGroup(name)), ext |-> DOT \o LastDotGroup(name) ]
    ELSE [ format |-> None, ext |-> None ]
\* common.findFormatExtURL(url)
findFormatExtURL(url) == findFormatExtFile(url)

(***************************************************************************)
(* Path Domain Sources                                                     *)
(***************************************************************************)
\* a listing, filtered to the extensions a request stands for
FilterByExt(paths, extList) ==
    LET wanted == Expand(extList)
    IN  SelectSeq(paths, LAMBDA p : LET ext == LastDotGroup(p)
                                    IN  ext # None /\ Lower(ext) \in wanted)

\* fileExtensions as the listings take it: a list of tokens
ExtList(fileExtensions) ==
    IF isListLike(fileExtensions) THEN fileExtensions.v ELSE << fileExtensions.v >>

getCorePaths(fileExtensions) == FilterByExt(corePaths, ExtList(fileExtensions))
getLocalPaths(fileExtensions) == FilterByExt(localPaths, ExtList(fileExtensions))
getVirtualPaths(fileExtensions) == FilterByExt(AllUrls(VIRTUAL), ExtList(fileExtensions))

\* getPaths(fileExtensions) over the default domains: local, core, virtual
getPaths(fileExtensions) ==
    getLocalPaths(fileExtensions) \o getCorePaths(fileExtensions)
        \o getVirtualPaths(fileExtensions)

(***************************************************************************)
(* getComposer                                                             *)
(***************************************************************************)
\* '.'.join(stub.split('.')[:-1])
AllButLastDotGroup(stub) ==
    LET groups == Split(stub, DOT)
    IN  Join(SubSeq(groups, 1, Len(groups) - 1), DOT)

\* the test by containment: the name anywhere in the component
StubContainsName(composerName, stub) == Contains(Lower(stub), Lower(composerName))

\* the test of one path component against the composer name
StubMatches(composerName, stub) ==
    \/ Lower(composerName) = Lower(stub)
    \/ /\ Contains(stub, DOT)
       /\ Lower(AllButLastDotGroup(stub)) = Lower(composerName)

\* the test of one path: some component of it matches
PathMatchesComposer(composerName, path) ==
    LET stubs == Split(path, SEP)
    IN  \E i \in 1..Len(stubs) : StubMatches(composerName, stubs[i])

\* results.sort() at the end of getComposer
SortResults(results) == SortStrs(results)

getComposer(composerName, fileExtensions) ==
    SortResults(SelectSeq(getPaths(fileExtensions),
                          LAMBDA path : PathMatchesComposer(composerName, path)))

(***************************************************************************)
(* Identifier Matcher: CoreCorpus().getWorkList                            *)
(***************************************************************************)
W_movement == << "m","o","v","e","m","e","n","t" >>

\* the identifier as an ordered list of lower-case components
IdentComponents(workName) ==
    IF isListLike(workName)
    THEN [ i \in 1..Len(workName.v) |-> Lower(workName.v[i]) ]
    ELSE Split(Lower(workName.v), SEP)

\* a path segment equals a component as a whole or without its extension
SegmentMatches(comp, seg) ==
    \/ seg = comp
    \/ Contains(seg, DOT) /\ AllButLastDotGroup(seg) = comp

\* the components are a contiguous run of the path's segments
PathMatchesWork(comps, path) ==
    LET segs == Split(Lower(path), SEP)
    IN  \E off \in 0..(Len(segs) - Len(comps)) :
            \A k \in 1..Len(comps) : SegmentMatches(comps[k], segs[off + k])

\* the file stem of a path: its last segment without the extension
FileStem(path) ==
    LET segs == Split(path, SEP)
        name == segs[Len(segs)]
    IN  IF Contains(name, DOT) THEN AllButLastDotGroup(name) ELSE name

\* the file stem encodes the requested movement
MovementMatches(movementNumber, path) ==
    \/ movementNumber.t = "none"
    \/ /\ movementNumber.t = "int"
       /\ movementNumber.v \in 0..9
       /\ Lower(FileStem(path)) = W_movement \o << DigitChars[movementNumber.v + 1] >>

\* the sorted core paths that denote the work and the movement
getWorkList(workName, movementNumber, fileExtensions) ==
    LET comps == IdentComponents(workName)
    IN  SortStrs(SelectSeq(getCorePaths(fileExtensions),
                           LAMBDA path : /\ PathMatchesWork(comps, path)
                                         /\ MovementMatches(movementNumber, path)))

(***************************************************************************)
(* getVirtualWorkList                                                      *)
(***************************************************************************)
\* VirtualWork.getUrlByExt(extList): the work's URLs of the requested extensions
getUrlByExt(vw, extList) == FilterByExt(vw.urlList, extList)

\* a scan that goes on to the next work when a matching work has no URL of the
\* requested extensions
RECURSIVE VirtualScanSkipsEmpty(_, _, _)
VirtualScanSkipsEmpty(works, workName, extList) ==
    IF Len(works) = 0 THEN <<>>
    ELSE IF works[1].corpusPath # None
            /\ Contains(Lower(works[1].corpusPath), Lower(workName))
            /\ getUrlByExt(works[1], extList) # <<>>
         THEN getUrlByExt(works[1], extList)
         ELSE VirtualScanSkipsEmpty(Tail(works), workName, extList)

\* the first work of the registry the name is a substring of decides
RECURSIVE VirtualScan(_, _, _)
VirtualScan(works, workName, extList) ==
    IF Len(works) = 0 THEN <<>>
    ELSE IF works[1].corpusPath # None
            /\ Contains(Lower(works[1].corpusPath), Lower(workName))
         THEN getUrlByExt(works[1], extList)
         ELSE VirtualScan(Tail(works), workName, extList)

\* workName is a string here; movementNumber is not used
getVirtualWorkList(workName, movementNumber, fileExtensions) ==
    VirtualScan(VIRTUAL, workName.v, ExtList(fileExtensions))

(***************************************************************************)
(* getWork                                                                 *)
(***************************************************************************)
Return(value) == [ kind |-> "return", value |-> value ]
\* an exception: its class, its message and the values formatted into the message
Raise(exc, message, args) ==
    [ kind |-> "raise", exc |-> exc, message |-> message, args |-> args ]

\* raise CorpusException('Could not find a file/url that met these criteria')
NotFound ==
    Raise("CorpusException", "Could not find a file/url that met these criteria", <<>>)

\* the arity policy without its failure branch: an empty result is returned
ArityReturnsEmpty(results) ==
    IF Len(results) = 1 THEN Return(Str(results[1])) ELSE Return(List(results))

\* the arity policy without its single-match branch: one match stays a list
ArityKeepsList(results) ==
    IF Len(results) = 0 THEN NotFound ELSE Return(List(results))

\* the arity policy returning the first match whenever there is one
ArityFirstMatch(results) ==
    IF Len(results) = 0 THEN NotFound ELSE Return(Str(results[1]))

\* the arity policy at the end of getWork
Arity(results) ==
    IF Len(results) = 1 THEN Return(Str(results[1]))
    ELSE IF Len(results) = 0 THEN NotFound
    ELSE Return(List(results))

\* workName as one string: a component list joined with the path separator
JoinedName(workName) ==
    IF isListLike(workName) THEN Str(Join(workName.v, SEP)) ELSE workName

\* the substitution without its new suffix: "a.xml.xml" becomes "a.xml"
NewWorkNameDropsSuffix(name) == Slice(name, 0, Len(name) - 4)

\* the substitution cutting one character too few: "a.xml" becomes "a..mxl"
NewWorkNameKeepsDot(name) == Slice(name, 0, Len(name) - 3) \o DOT \o W_mxl

\* workName[0:len(workName) - 4] + ".mxl"
NewWorkName(name) == Slice(name, 0, Len(name) - 4) \o DOT \o W_mxl

\* fileExtensions after the first two lines of getWork
WrapExtensions(fileExtensions) ==
    IF isListLike(fileExtensions) THEN fileExtensions ELSE List(<< fileExtensions.v >>)

\* one call of getWork: its outcome, and the frames it ran (itself and the
\* calls it made of itself)
RECURSIVE getWorkRun(_, _, _)
getWorkRun(workName, movementNumber, fileExtensions) ==
    LET exts == WrapExtensions(fileExtensions)
        results == getWorkList(workName, movementNumber, exts)
        name == JoinedName(workName)
    IN  IF Len(results) = 0
        THEN IF EndsWith(name.v, DOT \o W_xml)
             THEN LET retry == getWorkRun(Str(NewWorkName(name.v)), movementNumber, exts)
                  IN  [ ret |-> retry.ret, frames |-> retry.frames + 1 ]
             ELSE [ ret |-> Arity(getVirtualWorkList(name, movementNumber, exts)),
                    frames |-> 1 ]
        ELSE [ ret |-> Arity(results), frames |-> 1 ]

getWork(workName, movementNumber, fileExtensions) ==
    getWorkRun(workName, movementNumber, fileExtensions).ret

(***************************************************************************)
(* getWorkReferences                                                       *)
(***************************************************************************)
\* common.spaceCamelCase(s): a space before every capital and at every
\* boundary between digits and other characters, the first character aside
SpaceCamelCase(s) ==
    LET piece(i) ==
            IF i > 1 /\ ( \/ IsUpperCh(s[i])
                          \/ IsDigitCh(s[i]) # IsDigitCh(s[i - 1]) )
            THEN << " ", s[i] >>
            ELSE << s[i] >>
        pieces == [ i \in 1..Len(s) |-> piece(i) ]
    IN  Join(pieces, <<>>)

\* s.title(): every run of letters starts with a capital and goes on in lower case
Title(s) ==
    [ i \in 1..Len(s) |->
        IF i = 1 \/ ~IsAlphaCh(s[i - 1]) THEN UpperCh(s[i]) ELSE LowerCh(s[i]) ]

\* os.path.join(a, b) of posixpath
PathJoin(a, b) ==
    IF StartsWith(b, SEP) THEN b
    ELSE IF Len(a) = 0 \/ EndsWith(a, SEP) THEN a \o b
    ELSE a \o SEP \o b

\* d[key] = value on a dictionary kept as a function
DictPut(d, key, value) ==
    [ k \in (DOMAIN d) \cup { key } |-> IF k = key THEN value ELSE d[k] ]
EmptyDict == [ k \in {} |-> None ]

\* a results list that outlives the call: the next call starts from it
NewResultsKeptFromLastCall ==
    IF call.op = "getWorkReferences" /\ ret.kind = "return" THEN ret.value.v ELSE <<>>

\* results = [] at the start of getWorkReferences
NewResults == <<>>

\* what "junk, fileStub = pieces" raises when pieces are not two
UnpackError(pieces) ==
    IF Len(pieces) < 2
    THEN Raise("ValueError", "need more than 1 value to unpack", <<>>)
    ELSE Raise("ValueError", "too many values to unpack", <<>>)

\* fileStub without one leading separator
StripLeadingSep(fileStub) ==
    IF StartsWith(fileStub, SEP) THEN Slice(fileStub, Len(SEP), Len(fileStub))
    ELSE fileStub

\* the work stub of a file: its first component, without the extension when
\* the format is known
WorkStubOf(fileComponents, found) ==
    IF found.format = None THEN fileComponents[1]
    ELSE Replace(fileComponents[1], found.ext, <<>>)

\* the bucket a work stub gets on first sight
NewBucket(workStub) ==
    [ files |-> <<>>, title |-> Title(SpaceCamelCase(workStub)), virtual |-> FALSE ]

\* the record of one corpus file
CorpusFileDict(composerDirectory, fileStub, fileComponents, found) ==
    [ format |-> found.format,
      ext |-> found.ext,
      corpusPath |-> PathJoin(composerDirectory, fileStub),
      fileName |-> fileComponents[Len(fileComponents)],
      title |-> Title(SpaceCamelCase(
                    Replace(fileComponents[Len(fileComponents)], found.ext, <<>>))) ]

\* ref['works'][workStub]['files'].append(fileDict), the bucket made first
\* when the stub has none
RecordFile(works, workStub, fileDict) ==
    LET bucket == IF workStub \in DOMAIN works THEN works[workStub]
                  ELSE NewBucket(workStub)
    IN  DictPut(works, workStub,
                [ bucket EXCEPT !.files = Append(bucket.files, fileDict) ])

\* the body of "for path in works" for one path: the works of the composer
\* afterwards, or the error raised
AddPathToWorks(works, composerDirectory, path) ==
    LET pieces == Split(path, composerDirectory)
        fileStub == StripLeadingSep(pieces[2])
        fileComponents == Split(fileStub, SEP)
        found == findFormatExtFile(fileComponents[Len(fileComponents)])
        workStub == WorkStubOf(fileComponents, found)
    IN  IF Len(pieces) # 2 THEN [ err |-> TRUE, val |-> UnpackError(pieces) ]
        ELSE IF found.ext = None THEN [ err |-> FALSE, val |-> works ]
        ELSE [ err |-> FALSE,
               val |-> RecordFile(works, workStub,
                           CorpusFileDict(composerDirectory, fileStub,
                                          fileComponents, found)) ]

\* "for path in works" from the i-th path on
RECURSIVE AddPathsToWorks(_, _, _, _)
AddPathsToWorks(works, composerDirectory, paths, i) ==
    IF i > Len(paths) THEN [ err |-> FALSE, val |-> works ]
    ELSE LET step == AddPathToWorks(works, composerDirectory, paths[i])
         IN  IF step.err THEN step
             ELSE AddPathsToWorks(step.val, composerDirectory, paths, i + 1)

\* the loop over the composer table from its i-th row on
RECURSIVE AddComposers(_, _, _)
AddComposers(results, composers, i) ==
    IF i > Len(composers) THEN [ err |-> FALSE, val |-> results ]
    ELSE LET composerDirectory == composers[i][1]
             filled == AddPathsToWorks(EmptyDict, composerDirectory,
                                       getComposer(composerDirectory, PyNone), 1)
             ref == [ composer |-> composers[i][2],
                      composerDir |-> composerDirectory,
                      works |-> filled.val ]
         IN  IF filled.err THEN filled
             ELSE AddComposers(Append(results, ref), composers, i + 1)

\* the search going on after a match: the position of the last reference a
\* virtual work belongs to, or 0
RECURSIVE MatchingRefLast(_, _, _, _)
MatchingRefLast(results, vw, composerDir, i) ==
    IF i > Len(results) THEN 0
    ELSE LET later == MatchingRefLast(results, vw, composerDir, i + 1)
         IN  IF later # 0 THEN later
             ELSE IF results[i].composer = vw.composer
                        \/ composerDir = results[i].composerDir
                  THEN i
                  ELSE 0

\* the position of the first reference a virtual work belongs to, or 0
RECURSIVE MatchingRef(_, _, _, _)
MatchingRef(results, vw, composerDir, i) ==
    IF i > Len(results) THEN 0
    ELSE IF results[i].composer = vw.composer \/ composerDir = results[i].composerDir
         THEN i
         ELSE MatchingRef(results, vw, composerDir, i + 1)

\* the record of one URL of a virtual work
VirtualFileDict(vw, url) ==
    [ format |-> findFormatExtURL(url).format,
      ext |-> findFormatExtURL(url).ext,
      corpusPath |-> vw.corpusPath,
      title |-> vw.title,
      url |-> url ]

\* the bucket of a virtual work: made anew, then one record per URL
VirtualBucket(vw) ==
    [ virtual |-> TRUE,
      files |-> [ i \in 1..Len(vw.urlList) |-> VirtualFileDict(vw, vw.urlList[i]) ],
      title |-> vw.title ]

\* ref['works'][workStub] = {} and what follows it, for a virtual work
PutVirtualWork(works, workStub, vw) == DictPut(works, workStub, VirtualBucket(vw))

\* the body of "for vw in VIRTUAL" for one work
AddVirtualWork(results, vw) ==
    LET composerDir == Split(vw.corpusPath, SEP)[1]
        at == MatchingRef(results, vw, composerDir, 1)
        workStub == Replace(vw.corpusPath, composerDir \o SEP, <<>>)
        fresh == [ composer |-> vw.composer, composerDir |-> composerDir,
                   works |-> PutVirtualWork(EmptyDict, workStub, vw) ]
    IN  IF at = 0 THEN Append(results, fresh)
        ELSE [ results EXCEPT
                 ![at].works = PutVirtualWork(results[at].works, workStub, vw) ]

RECURSIVE AddVirtualWorks(_, _)
AddVirtualWorks(results, works) ==
    IF Len(works) = 0 THEN results
    ELSE AddVirtualWorks(AddVirtualWork(results, works[1]), Tail(works))

\* [title, workStub] < [title, workStub] as Python compares two lists
KeyLess(a, b) == StrLess(a[1], b[1]) \/ (a[1] = b[1] /\ StrLess(a[2], b[2]))

\* sortGroupSub.sort(): the [title, workStub] pairs of a set in ascending order
RECURSIVE SortKeys(_)
SortKeys(keys) ==
    IF keys = {} THEN <<>>
    ELSE LET least == CHOOSE a \in keys : \A b \in keys \ { a } : KeyLess(a, b)
         IN  << least >> \o SortKeys(keys \ { least })

\* ref['sortedWorkKeys'] of one reference
SortedWorkKeys(ref) ==
    LET keys == { << ref.works[stub].title, stub >> : stub \in DOMAIN ref.works }
        sorted == SortKeys(keys)
    IN  [ i \in 1..Len(sorted) |-> sorted[i][2] ]

WithSortedWorkKeys(ref) ==
    [ composer |-> ref.composer, composerDir |-> ref.composerDir,
      works |-> ref.works, sortedWorkKeys |-> SortedWorkKeys(ref) ]

\* sortGroup.sort(): the references in ascending order of composerDir (no two
\* references share one, so the references themselves are never compared)
\* the comparison turned round: the references in descending order
RECURSIVE InsertRefDescending(_, _)
InsertRefDescending(sorted, ref) ==
    IF Len(sorted) = 0 THEN << ref >>
    ELSE IF StrLess(sorted[1].composerDir, ref.composerDir) THEN << ref >> \o sorted
    ELSE << sorted[1] >> \o InsertRefDescending(Tail(sorted), ref)

RECURSIVE InsertRef(_, _)
InsertRef(sorted, ref) ==
    IF Len(sorted) = 0 THEN << ref >>
    ELSE IF StrLess(ref.composerDir, sorted[1].composerDir) THEN << ref >> \o sorted
    ELSE << sorted[1] >> \o InsertRef(Tail(sorted), ref)
RECURSIVE SortRefs(_)
SortRefs(refs) ==
    IF Len(refs) = 0 THEN <<>>
    ELSE InsertRef(SortRefs(SubSeq(refs, 1, Len(refs) - 1)), refs[Len(refs)])

\* the "if sort:" block without the sort of the composers
SortOutputKeepsComposerOrder(results) ==
    [ i \in 1..Len(results) |-> WithSortedWorkKeys(results[i]) ]

\* the "if sort:" block
SortOutput(results) ==
    SortRefs([ i \in 1..Len(results) |-> WithSortedWorkKeys(results[i]) ])

getWorkReferences(sort) ==
    LET core == AddComposers(NewResults, COMPOSERS, 1)
        all == AddVirtualWorks(core.val, VIRTUAL)
    IN  IF core.err THEN core.val
        ELSE Return(List(IF sort THEN SortOutput(all) ELSE all))

(***************************************************************************)
(* addPath and the cache of listings                                       *)
(***************************************************************************)
\* the domains a cached listing is keyed to
Domains == { "local", "core", "virtual" }

\* the keys of a cache whose first element is 'local'
LocalKeys(cache) == { key \in DOMAIN cache : key[1] = "local" }

\* del d[key]
DictDel(d, key) == [ k \in (DOMAIN d) \ { key } |-> d[k] ]

\* the three errors of addPath, each with the path formatted into its message
InvalidPath(filePath) ==
    Raise("CorpusException", "an invalid file path has been provided: {0!r}",
          << filePath >>)
AlreadyAdded(filePath) ==
    Raise("CorpusException", "the provided path has already been added: {0!r}",
          << filePath >>)
AlreadyConfigured(filePath) ==
    Raise("CorpusException",
          "the provided path is already incldued in the Environment localCorpusSettings: {0!r}",
          << filePath >>)
\* no error
NoError == [ kind |-> "none" ]

\* the checks without the one of the session list
RejectionSkipsAdded(filePath, exists) ==
    IF filePath.t = "none" \/ ~exists THEN InvalidPath(filePath)
    ELSE IF filePath.v \in Elems(localCorpusSettings) THEN AlreadyConfigured(filePath)
    ELSE NoError

\* the checks at the head of addPath: the error raised, if any; exists is
\* what os.path.exists answers for the path
Rejection(filePath, exists) ==
    IF filePath.t = "none" \/ ~exists THEN InvalidPath(filePath)
    ELSE IF filePath.v \in Elems(pathsLocalTemp) THEN AlreadyAdded(filePath)
    ELSE IF filePath.v \in Elems(localCorpusSettings) THEN AlreadyConfigured(filePath)
    ELSE NoError

\* what a dictionary raises when asked for its next key after an entry of it
\* was deleted
DictChanged ==
    Raise("RuntimeError", "dictionary changed size during iteration", <<>>)

\* the local keys one of which the loop over the cache meets first; the order
\* a dictionary hands out its keys in is not the program's to choose
FirstLocalKeys(cache) == IF LocalKeys(cache) = {} THEN { None } ELSE LocalKeys(cache)

\* "for key in _pathsCache: if key[0] == 'local': del _pathsCache[key]", first
\* being the local key met first: without local keys the loop runs through;
\* with one, that key is deleted and the step to the next key raises
DeleteLocalKeys(cache, first) ==
    IF LocalKeys(cache) = {} THEN [ ret |-> Return(PyNone), cache |-> cache ]
    ELSE [ ret |-> DictChanged, cache |-> DictDel(cache, first) ]

\* the listing a domain gives for a request
DomainPaths(domain, fileExtensions) ==
    CASE domain = "local" -> getLocalPaths(fileExtensions)
      [] domain = "core" -> getCorePaths(fileExtensions)
      [] domain = "virtual" -> getVirtualPaths(fileExtensions)

(***************************************************************************)
(* The calls of a session                                                  *)
(***************************************************************************)
\* the identifiers, movements and extensions a caller asks for
WorkNames ==
    { Str(W_bach \o SEP \o W_bwv),
      Str(File(W_bwv, W_xml)),
      List(<< W_bach, File(W_bwv, W_xml) >>),
      Str(W_bwv),
      Str(W_air),
      Str(<< "S","a","t","i","e" >>),
      Str(File(W_movement1, W_xml)),
      Str(File(W_satie, W_xml)),
      Str(File(File(W_bwv, W_xml), W_xml)) }
MovementNumbers == { PyNone, PyInt(1) }
ExtensionRequests == { PyNone, Str(W_xml), Str(DOT \o W_krn) }
ComposerNames == { W_bach, W_Bach, W_cpebach, W_satie, W_bwv }

\* the listings of the core and the local corpus
InitListings ==
    /\ corePaths \in SubLists(CorePathUniverse, MaxCorePaths)
    /\ localPaths \in SubLists(LocalPathUniverse, MaxLocalPaths)

\* a session in which nothing was called yet
InitSession ==
    /\ call = [ op |-> "none" ]
    /\ ret = [ kind |-> "none" ]
    /\ history = <<>>
    /\ frames = 0
    /\ pathsLocalTemp = <<>>
    /\ pathsCache = EmptyDict
    /\ localCorpusSettings = << SEP \o W_home >>

Init ==
    /\ InitListings
    /\ VIRTUAL \in Arrangements(VirtualUniverse, MaxVirtual)
    /\ InitSession

\* the calls made so far
NCalls == Len(history) + (IF call.op = "none" THEN 0 ELSE 1)

\* the session's record once a further call is made
Logged ==
    IF call.op = "none" THEN history ELSE Append(history, [ call |-> call, ret |-> ret ])

\* a caller resolves one work
GetWork(workName, movementNumber, fileExtensions) ==
    /\ NCalls = 0
    /\ call' = [ op |-> "getWork", workName |-> workName,
                 movementNumber |-> movementNumber, fileExtensions |-> fileExtensions ]
    /\ LET run == getWorkRun(workName, movementNumber, fileExtensions)
       IN  ret' = run.ret /\ frames' = run.frames
    /\ history' = Logged
    /\ UNCHANGED << corpus, registry >>

\* a caller lists the files of one composer
GetComposer(composerName, fileExtensions) ==
    /\ NCalls = 0
    /\ call' = [ op |-> "getComposer", composerName |-> composerName,
                 fileExtensions |-> fileExtensions ]
    /\ ret' = Return(List(getComposer(composerName, fileExtensions)))
    /\ history' = Logged
    /\ UNCHANGED << corpus, registry, frames >>

NextWork ==
    \E w \in WorkNames, m \in MovementNumbers, e \in ExtensionRequests : GetWork(w, m, e)
\* getWork reads the core listing and the registry, never the local corpus
InitWork == Init /\ localPaths = <<>>
SpecWork == InitWork /\ [][NextWork]_vars

\* the documentation generator builds the reference index
GetWorkReferences(sort) ==
    /\ NCalls < MaxCalls
    /\ call' = [ op |-> "getWorkReferences", sort |-> sort ]
    /\ ret' = getWorkReferences(sort)
    /\ history' = Logged
    /\ UNCHANGED << corpus, registry, frames >>

NextRefs == \E sort \in BOOLEAN : GetWorkReferences(sort)
\* the index builder reads the composer and the directory of each virtual work
InitRefs ==
    /\ InitListings
    /\ VIRTUAL \in Arrangements(VirtualUniverseRefs, MaxVirtual)
    /\ InitSession
SpecRefs == InitRefs /\ [][NextRefs]_vars

NextComposer ==
    \E c \in ComposerNames, e \in ExtensionRequests : GetComposer(c, e)
SpecComposer == Init /\ [][NextComposer]_vars

\* the paths a user asks to add, and the requests whose listings get cached
PathArguments ==
    { PyNone, Str(SEP \o W_home), Str(LocalPath(<< W_bach >>)),
      Str(LocalPath(<< W_airs >>)) }
CacheRequests == { PyNone, Str(DOT \o W_krn) }

\* a user adds a directory to the local corpus for the session
AddPath(filePath, exists) ==
    /\ call' = [ op |-> "addPath", filePath |-> filePath, exists |-> exists ]
    /\ LET rejection == Rejection(filePath, exists)
       IN  IF rejection.kind = "raise"
           THEN /\ ret' = rejection
                /\ UNCHANGED << pathsLocalTemp, pathsCache >>
           ELSE /\ pathsLocalTemp' = Append(pathsLocalTemp, filePath.v)
                /\ \E first \in FirstLocalKeys(pathsCache) :
                      LET loop == DeleteLocalKeys(pathsCache, first)
                      IN  ret' = loop.ret /\ pathsCache' = loop.cache
    /\ UNCHANGED << corpus, localCorpusSettings, history, frames >>

\* a higher-level function caches the listing of a domain under the domain
\* and the extensions asked for
CachePaths(domain, fileExtensions) ==
    /\ call' = [ op |-> "cachePaths", domain |-> domain,
                 fileExtensions |-> fileExtensions ]
    /\ ret' = Return(List(DomainPaths(domain, fileExtensions)))
    /\ pathsCache' = DictPut(pathsCache, << domain, fileExtensions >>,
                             DomainPaths(domain, fileExtensions))
    /\ UNCHANGED << corpus, pathsLocalTemp, localCorpusSettings, history, frames >>

NextPaths ==
    \/ \E p \in PathArguments, exists \in BOOLEAN : AddPath(p, exists)
    \/ \E d \in Domains, e \in CacheRequests : CachePaths(d, e)
\* the registry and the cache are the same whatever the core corpus and the
\* virtual registry hold
InitPaths == Init /\ corePaths = <<>> /\ VIRTUAL = <<>>
SpecPaths == InitPaths /\ [][NextPaths]_vars

(***************************************************************************)
(* What a getWork request resolves to, read off the corpus                 *)
(***************************************************************************)
\* the extensions as a list, and the identifier as one string
ReqExts ==
    IF call.fileExtensions.t = "list" THEN call.fileExtensions
    ELSE List(<< call.fileExtensions.v >>)
ReqName ==
    IF call.workName.t = "list" THEN Join(call.workName.v, SEP) ELSE call.workName.v
\* the identifier ends in ".xml", and the identifier with that ".xml"
\* replaced by ".mxl"
ReqEndsXml == EndsWith(ReqName, << ".","x","m","l" >>)
ReqMxlName ==
    IF ReqEndsXml THEN SubSeq(ReqName, 1, Len(ReqName) - 4) \o << ".","m","x","l" >>
    ELSE ReqName
\* the core work list of the request
ReqCore == getWorkList(call.workName, call.movementNumber, ReqExts)
\* the retry applies: nothing in the core and the identifier ends in ".xml"
ReqRetries(core) == core = <<>> /\ ReqEndsXml
\* the core work list of the retry
ReqMxlCore(core) ==
    IF ReqRetries(core)
    THEN getWorkList(Str(ReqMxlName), call.movementNumber, ReqExts)
    ELSE <<>>
\* the identifier the virtual registry is asked for, and what it answers
ReqVirtualName(core) == IF ReqRetries(core) THEN ReqMxlName ELSE ReqName
ReqVirtual(core) ==
    getVirtualWorkList(Str(ReqVirtualName(core)), call.movementNumber, ReqExts)
\* the matches of the resolution: the core's, else the retry's, else the
\* virtual ones
ReqMatches(core) ==
    IF core # <<>> THEN core
    ELSE LET mxlCore == ReqMxlCore(core)
         IN  IF mxlCore # <<>> THEN mxlCore ELSE ReqVirtual(core)

\* C1: getWork never returns an empty list.  When the core work list is
\* empty, the identifier does not end in ".xml" and the virtual lookup yields
\* no URL, getWork raises CorpusException; whatever it returns is one path or
\* URL, or a list of at least two.
C1_NeverEmptyList ==
    call.op = "getWork" =>
        /\ ret.kind \in { "return", "raise" }
        /\ ret.kind = "return"
            => \/ ret.value.t = "str"
               \/ ret.value.t = "list" /\ Len(ret.value.v) >= 2
        /\ \/ ret.kind = "raise" /\ ret.exc = "CorpusException"
           \/ ReqEndsXml
           \/ LET core == ReqCore IN core # <<>> \/ ReqVirtual(core) # <<>>

\* a lookup with nothing in the core, no retry and nothing virtual has failed
C1_Witness ==
    /\ call.op = "getWork"
    /\ VIRTUAL # <<>>
    /\ corePaths # <<>>
    /\ ret.kind = "raise"
    /\ ret.exc = "CorpusException"
    /\ ~ReqEndsXml
    /\ LET core == ReqCore IN core = <<>> /\ ReqVirtual(core) = <<>>

\* C2: when the resolution yields exactly one match (from the core, or from
\* the virtual lookup reached after an empty core result), getWork returns
\* that path or URL itself, not a list holding it.
C2_SingleMatchUnwrapped ==
    call.op = "getWork" =>
        LET matches == ReqMatches(ReqCore)
        IN  Len(matches) = 1 => (ret.kind = "return" /\ ret.value = Str(matches[1]))

\* a work with two URLs was found after an empty core result, one URL was of
\* the requested extension, and that URL was returned
C2_Witness ==
    /\ call.op = "getWork"
    /\ ret.kind = "return"
    /\ ret.value.t = "str"
    /\ \E i \in 1..Len(VIRTUAL) :
          Len(VIRTUAL[i].urlList) > 1 /\ ret.value.v \in Elems(VIRTUAL[i].urlList)
    /\ LET core == ReqCore
       IN  core = <<>> /\ ReqVirtual(core) = << ret.value.v >>

\* the elements of two lists are the same, each as many times
SameElements(a, b) ==
    /\ Len(a) = Len(b)
    /\ \A x \in Elems(a) \cup Elems(b) : Count(a, x) = Count(b, x)

\* C3 as claimed: when the resolution yields N > 1 matches, getWork returns a
\* list of length N holding exactly those matches in ascending order of the
\* path string.
C3_ListSortedAscending ==
    call.op = "getWork" =>
        LET matches == ReqMatches(ReqCore)
        IN  Len(matches) > 1 =>
                /\ ret.kind = "return"
                /\ ret.value.t = "list"
                /\ SameElements(ret.value.v, matches)
                /\ IsSortedStrs(ret.value.v)

\* C3 as amended: when the resolution yields N > 1 matches, getWork returns a
\* list of length N holding exactly those matches in the order the lookup
\* gave them: core matches ascending by path string, the URLs of a virtual
\* work in the order of that work's URL list.
C3_ListInLookupOrder ==
    call.op = "getWork" =>
        LET core == ReqCore
            mxlCore == ReqMxlCore(core)
            matches == ReqMatches(core)
        IN  Len(matches) > 1 =>
                /\ ret.kind = "return"
                /\ ret.value.t = "list"
                /\ SameElements(ret.value.v, matches)
                /\ \/ /\ matches \in { core, mxlCore }
                      /\ IsSortedStrs(ret.value.v)
                   \/ /\ core = <<>> /\ mxlCore = <<>>
                      /\ \E i \in 1..Len(VIRTUAL) :
                            ret.value.v = SelectSeq(VIRTUAL[i].urlList,
                                              LAMBDA u : u \in Elems(ret.value.v))

\* a virtual work's URLs were returned as they are listed, not in ascending order
C3_Witness ==
    /\ call.op = "getWork"
    /\ ret.kind = "return"
    /\ ret.value.t = "list"
    /\ Len(ret.value.v) > 1
    /\ ~IsSortedStrs(ret.value.v)
    /\ LET core == ReqCore IN core = <<>> /\ ReqMatches(core) = ReqVirtual(core)

\* C4: when the core has no match and the identifier (a string, or a list of
\* components joined with the separator) ends in ".xml", the outcome of
\* getWork is the outcome of getWork for the identifier with that ".xml"
\* replaced by ".mxl", with the same movement and extensions.
C4_XmlRetryEquivalence ==
    (call.op = "getWork" /\ ReqEndsXml) =>
        (ReqRetries(ReqCore) =>
            ret = getWork(Str(ReqMxlName), call.movementNumber, call.fileExtensions))

\* a component list ending in ".xml" was resolved to the ".mxl" file
C4_Witness ==
    /\ call.op = "getWork"
    /\ call.workName.t = "list"
    /\ ret.kind = "return"
    /\ ret.value.t = "str"
    /\ EndsWith(ret.value.v, << ".","m","x","l" >>)
    /\ LET core == ReqCore
       IN  ReqRetries(core) /\ ReqMxlCore(core) = << ret.value.v >>

\* the URLs of a list that have one of the requested extensions
UrlsOfExtensions(urlList, exts) ==
    SelectSeq(urlList, LAMBDA u : /\ LastDotGroup(u) # None
                                  /\ Lower(LastDotGroup(u)) \in Expand(exts.v))
\* one URL as itself, several as a list
OneOrList(urls) == IF Len(urls) = 1 THEN Str(urls[1]) ELSE List(urls)
\* the works of the registry whose corpusPath contains the name
VirtualMatches(name) ==
    { i \in 1..Len(VIRTUAL) : Contains(Lower(VIRTUAL[i].corpusPath), Lower(name)) }

C7_ErrorCarriesIdentifier ==
    (call.op = "getWork" /\ ret.kind = "raise")
        => \E i \in 1..Len(ret.args) : ret.args[i] = call.workName

(***************************************************************************)
(* getComposer                                                             *)
(***************************************************************************)
\* the segments of a path: its maximal runs without a separator
SegmentsOf(path) ==
    { SubSeq(path, i, j) : i \in 1..(Len(path) + 1), j \in 0..Len(path) } \cap
    UNION { { SubSeq(path, i, j) :
                j \in { j \in (i - 1)..Len(path) :
                          /\ i = 1 \/ path[i - 1] = "/"
                          /\ j = Len(path) \/ path[j + 1] = "/"
                          /\ \A k \in i..j : path[k] # "/" } } :
            i \in 1..(Len(path) + 1) }

\* the segment is the name, in any case, as a whole or up to its last dot
SegmentIsName(name, seg) ==
    \/ LowerOf(seg) = LowerOf(name)
    \/ \E k \in 1..Len(seg) :
          /\ seg[k] = "."
          /\ \A m \in (k + 1)..Len(seg) : seg[m] # "."
          /\ LowerOf(SubSeq(seg, 1, k - 1)) = LowerOf(name)

\* C6: getComposer(name) returns, in ascending order of the path string,
\* exactly the paths of the local, core and virtual listings that have a
\* segment equal to name in any case, as a whole or without its final
\* dot-group; a path that holds name only inside a longer segment is not
\* returned.
C6_ComposerBySegment ==
    call.op = "getComposer" =>
        LET listing == getPaths(call.fileExtensions)
            result == ret.value.v
        IN  /\ ret.kind = "return"
            /\ IsSortedStrs(result)
            /\ \A p \in Elems(listing) \cup Elems(result) :
                  Count(result, p) =
                      IF \E seg \in SegmentsOf(p) : SegmentIsName(call.composerName, seg)
                      THEN Count(listing, p)
                      ELSE 0

\* 'bach' was asked for; a file named bach.krn in another directory was
\* returned and a file under cpebach was not
C6_Witness ==
    /\ call.op = "getComposer"
    /\ call.composerName = W_bach
    /\ \E p \in Elems(corePaths) :
          /\ Contains(p, W_cpebach)
          /\ p \notin Elems(ret.value.v)
    /\ \E q \in Elems(ret.value.v) :
          /\ ~Contains(q, SEP \o W_bach \o SEP)
          /\ Contains(q, File(W_bach, W_krn))

(***************************************************************************)
(* getWorkReferences                                                       *)
(***************************************************************************)
\* the entries of a returned index
Entries == ret.value.v
\* the records of corpus files an entry holds, each with its stub and position
CorpusRecords(entry) ==
    UNION { { << stub, k >> :
                k \in { k \in 1..Len(entry.works[stub].files) :
                          "fileName" \in DOMAIN entry.works[stub].files[k] } } :
            stub \in DOMAIN entry.works }
\* the files of a composer directory that the builder records: those
\* getComposer finds whose name has a known extension
DocumentsOf(composerDirectory) ==
    SelectSeq(getComposer(composerDirectory, PyNone),
              LAMBDA p : LastDotGroup(p) \in KnownExtensions)

\* C8: in the index getWorkReferences returns, no discovery has overwritten an
\* earlier one: every file recorded for a composer is still in one of the
\* buckets of that composer's entry, whatever was folded in afterwards.
C8_NoDiscoveryOverwritten ==
    (call.op = "getWorkReferences" /\ ret.kind = "return") =>
        \A i \in 1..Len(COMPOSERS) :
            \E n \in 1..Len(Entries) :
                /\ Entries[n].composerDir = COMPOSERS[i][1]
                /\ Cardinality(CorpusRecords(Entries[n]))
                      = Len(DocumentsOf(COMPOSERS[i][1]))

FirstWorkUnder(composerDir) ==
    CHOOSE i \in 1..Len(VIRTUAL) :
        /\ Split(VIRTUAL[i].corpusPath, SEP)[1] = composerDir
        /\ \A j \in 1..(i - 1) : Split(VIRTUAL[j].corpusPath, SEP)[1] # composerDir

\* (title, stub) of one work stub is at most that of another
KeyLeq(works, a, b) ==
    \/ StrLess(works[a].title, works[b].title)
    \/ works[a].title = works[b].title /\ StrLeq(a, b)

\* C10: with sort=True the entries are in ascending order of composerDir and
\* each carries sortedWorkKeys, holding every stub of the entry once, in
\* ascending (title, stub) order; with sort=False the entries are in the order
\* they were made (the composer table's rows, then the entries made for
\* virtual works) and none carries sortedWorkKeys.
C10_SortedOutput ==
    (call.op = "getWorkReferences" /\ ret.kind = "return") =>
        IF call.sort
        THEN /\ \A i, j \in 1..Len(Entries) :
                   i < j => StrLeq(Entries[i].composerDir, Entries[j].composerDir)
             /\ \A n \in 1..Len(Entries) :
                   LET e == Entries[n]
                   IN  /\ "sortedWorkKeys" \in DOMAIN e
                       /\ Elems(e.sortedWorkKeys) = DOMAIN e.works
                       /\ Len(e.sortedWorkKeys) = Cardinality(DOMAIN e.works)
                       /\ \A i, j \in 1..Len(e.sortedWorkKeys) :
                             i < j => KeyLeq(e.works, e.sortedWorkKeys[i],
                                             e.sortedWorkKeys[j])
        ELSE /\ Len(Entries) >= Len(COMPOSERS)
             /\ \A n \in 1..Len(Entries) :
                   /\ "sortedWorkKeys" \notin DOMAIN Entries[n]
                   /\ n <= Len(COMPOSERS) =>
                        /\ Entries[n].composerDir = COMPOSERS[n][1]
                        /\ Entries[n].composer = COMPOSERS[n][2]
             /\ \A m, n \in (Len(COMPOSERS) + 1)..Len(Entries) :
                   m < n => FirstWorkUnder(Entries[m].composerDir)
                                < FirstWorkUnder(Entries[n].composerDir)

\* a sorted index was returned in which an entry made for a virtual work
\* stands before a row of the composer table, and an entry's stubs are in an
\* order that their titles decide
C10_Witness ==
    /\ call.op = "getWorkReferences"
    /\ call.sort
    /\ ret.kind = "return"
    /\ \E n \in 1..Len(Entries) :
          /\ "sortedWorkKeys" \in DOMAIN Entries[n]
          /\ Len(Entries[n].sortedWorkKeys) > 1
          /\ ~IsSortedStrs(Entries[n].sortedWorkKeys)
    /\ \E m, n \in 1..Len(Entries) :
          /\ m < n
          /\ Entries[m].composerDir = W_cpebach
          /\ Entries[n].composerDir = W_satie
    /\ \E m, n \in 1..Len(Entries) :
          /\ m < n
          /\ Entries[m].composerDir = W_ciconia
          /\ Entries[n].composerDir = W_cpebach

\* the position of the entry of a composer directory in a returned index
PositionOf(composerDir) ==
    CHOOSE n \in 1..Len(Entries) : Entries[n].composerDir = composerDir

\* C11 as claimed: with sort=True the entries of the registry's composers are
\* in the order of the COMPOSERS table: the entry of a row stands before the
\* entry of every later row.
C11_RegistryOrderKept ==
    (call.op = "getWorkReferences" /\ call.sort /\ ret.kind = "return") =>
        \A i, j \in 1..Len(COMPOSERS) :
            i < j => PositionOf(COMPOSERS[i][1]) < PositionOf(COMPOSERS[j][1])

\* C11 as amended: with sort=True the entries of the registry's composers are
\* in ascending order of their directory names as strings, whatever the order
\* of the COMPOSERS table: the entry of a row stands before the entry of
\* another row exactly when its directory name is the smaller one.
C11_ComposerDirOrder ==
    (call.op = "getWorkReferences" /\ call.sort /\ ret.kind = "return") =>
        \A i, j \in 1..Len(COMPOSERS) :
            i # j => ( PositionOf(COMPOSERS[i][1]) < PositionOf(COMPOSERS[j][1])
                        <=> StrLess(COMPOSERS[i][1], COMPOSERS[j][1]) )

\* a sorted index of a corpus with files was returned, and the entry of
\* 'ciconia' stands right before that of 'cpebach', which the table lists first
C11_Witness ==
    /\ call.op = "getWorkReferences"
    /\ call.sort
    /\ ret.kind = "return"
    /\ corePaths # <<>>
    /\ \E i, j \in 1..Len(COMPOSERS) :
          /\ i < j
          /\ COMPOSERS[i][1] = W_cpebach
          /\ COMPOSERS[j][1] = W_ciconia
          /\ PositionOf(W_ciconia) + 1 = PositionOf(W_cpebach)

\* C12: getWorkReferences raises no error, whatever the listings hold: every
\* path getComposer returns for a composer of the registry is recorded or
\* skipped, and the builder returns its index.
C12_BuilderRunsToCompletion ==
    call.op = "getWorkReferences" => ret.kind = "return"

\* what stands before the first separator of a corpus path
FirstSegment(path) ==
    LET seps == { k \in 1..Len(path) : path[k] = "/" }
    IN  IF seps = {} THEN path
        ELSE SubSeq(path, 1, (CHOOSE k \in seps : \A m \in seps : k <= m) - 1)

\* the i-th virtual work belongs to a composer name and a directory
Belongs(i, composer, composerDir) ==
    \/ composer = VIRTUAL[i].composer
    \/ composerDir = FirstSegment(VIRTUAL[i].corpusPath)

\* the rows of the composer table the i-th virtual work belongs to
RowsOf(i) ==
    { r \in 1..Len(COMPOSERS) : Belongs(i, COMPOSERS[r][2], COMPOSERS[r][1]) }

\* the i-th virtual work found no entry when its turn came: no row of the
\* table, and no entry made for an earlier virtual work
RECURSIVE MakesEntry(_)
MakesEntry(i) ==
    /\ RowsOf(i) = {}
    /\ \A j \in 1..(i - 1) :
          MakesEntry(j) =>
              ~Belongs(i, VIRTUAL[j].composer, FirstSegment(VIRTUAL[j].corpusPath))

\* the earlier virtual works whose entries the i-th virtual work belongs to
EarlierMakers(i) ==
    { j \in 1..(i - 1) :
        /\ MakesEntry(j)
        /\ Belongs(i, VIRTUAL[j].composer, FirstSegment(VIRTUAL[j].corpusPath)) }

\* the composer name and directory of the entry the i-th virtual work goes to:
\* the first row of the table it belongs to, else the entry of the first
\* earlier virtual work it belongs to, else an entry of its own
HomeOf(i) ==
    IF RowsOf(i) # {}
    THEN LET r == CHOOSE r \in RowsOf(i) : \A q \in RowsOf(i) : r <= q
         IN  << COMPOSERS[r][2], COMPOSERS[r][1] >>
    ELSE IF EarlierMakers(i) # {}
    THEN LET j == CHOOSE j \in EarlierMakers(i) : \A q \in EarlierMakers(i) : j <= q
         IN  << VIRTUAL[j].composer, FirstSegment(VIRTUAL[j].corpusPath) >>
    ELSE << VIRTUAL[i].composer, FirstSegment(VIRTUAL[i].corpusPath) >>

\* the buckets of an entry that hold the i-th virtual work: marked virtual,
\* with the work's title and one record per URL, in the order of the URL list
BucketsOf(entry, i) ==
    { stub \in DOMAIN entry.works :
        LET bucket == entry.works[stub]
        IN  /\ bucket.virtual
            /\ bucket.title = VIRTUAL[i].title
            /\ Len(bucket.files) = Len(VIRTUAL[i].urlList)
            /\ \A k \in 1..Len(bucket.files) :
                  /\ "url" \in DOMAIN bucket.files[k]
                  /\ bucket.files[k].url = VIRTUAL[i].urlList[k]
                  /\ bucket.files[k].corpusPath = VIRTUAL[i].corpusPath }

\* C15: in a returned index every virtual work stands, marked virtual with
\* one file record per URL, in exactly one entry: the first entry, in the
\* order the entries were made, whose composer name is the work's composer or
\* whose composerDir is the first segment of the work's corpusPath, entries
\* made for earlier virtual works included, and an entry of its own when
\* there was none.  No two entries share a composerDir, and there are as
\* many entries as rows of the table and virtual works that found no entry.
C15_VirtualFold ==
    (call.op = "getWorkReferences" /\ ret.kind = "return") =>
        /\ \A m, n \in 1..Len(Entries) :
              m # n => Entries[m].composerDir # Entries[n].composerDir
        /\ Len(Entries)
              = Len(COMPOSERS) + Cardinality({ i \in 1..Len(VIRTUAL) : MakesEntry(i) })
        /\ \A i \in 1..Len(VIRTUAL) :
              LET home == HomeOf(i)
                  at == { n \in 1..Len(Entries) :
                            << Entries[n].composer, Entries[n].composerDir >> = home }
              IN  /\ at # {}
                  /\ \A n \in 1..Len(Entries) :
                        IF n \in at
                        THEN Cardinality(BucketsOf(Entries[n], i)) = 1
                        ELSE BucketsOf(Entries[n], i) = {}

\* an unsorted index was returned in which a virtual work that belongs to no
\* row of the table stands in the entry made for an earlier virtual work,
\* whose composer name is not its own
C15_Witness ==
    /\ call.op = "getWorkReferences"
    /\ ~call.sort
    /\ ret.kind = "return"
    /\ Len(Entries) = Len(COMPOSERS) + 1
    /\ \E i \in 1..Len(VIRTUAL) :
          /\ RowsOf(i) = {}
          /\ EarlierMakers(i) # {}
          /\ Entries[Len(Entries)].composer # VIRTUAL[i].composer
          /\ BucketsOf(Entries[Len(Entries)], i) # {}

\* C16: getWork terminates.  A call runs one frame, or two when the core has
\* no match and the identifier ends in ".xml": the identifier of the second
\* frame ends in ".mxl", so that frame never retries.  Every call ends by
\* returning a result or raising CorpusException.
C16_RetryAtMostOnce ==
    call.op = "getWork" =>
        /\ frames \in { 1, 2 }
        /\ frames = 2 <=> ReqRetries(ReqCore)
        /\ \/ ret.kind = "return"
           \/ ret.kind = "raise" /\ ret.exc = "CorpusException"

\* an identifier ending in ".xml.xml" was retried once, as "....xml.mxl", and
\* the lookup then failed
C16_Witness ==
    /\ call.op = "getWork"
    /\ ReqName = File(File(W_bwv, W_xml), W_xml)
    /\ corePaths # <<>>
    /\ frames = 2
    /\ ret.kind = "raise"

(***************************************************************************)
(* addPath                                                                 *)
(***************************************************************************)
\* the path of an addPath call is None or does not exist; it is in the
\* session list; it is in the environment's settings
IsInvalid(c) == c.filePath.t = "none" \/ ~c.exists
IsAdded(c, temp) == c.filePath.v \in Elems(temp)
IsConfigured(c) == c.filePath.v \in Elems(localCorpusSettings)

\* C13: addPath raises CorpusException for a path that is None or does not
\* exist, that is in _pathsLocalTemp already, or that is in the environment's
\* localCorpusSettings, and then leaves _pathsLocalTemp and _pathsCache as
\* they were; _pathsLocalTemp never holds a path twice.
C13_RejectionsChangeNothing ==
    /\ [](\A i, j \in 1..Len(pathsLocalTemp) :
              i # j => pathsLocalTemp[i] # pathsLocalTemp[j])
    /\ [][ call'.op = "addPath" =>
              ( ( \/ IsInvalid(call')
                  \/ IsAdded(call', pathsLocalTemp)
                  \/ IsConfigured(call') )
                => /\ ret'.kind = "raise"
                   /\ ret'.exc = "CorpusException"
                   /\ pathsLocalTemp' = pathsLocalTemp
                   /\ pathsCache' = pathsCache ) ]_vars

\* a directory that exists was added a second time and rejected, while the
\* session list held two directories and the cache a local listing
C13_Witness ==
    /\ call.op = "addPath"
    /\ call.exists
    /\ ret.kind = "raise"
    /\ ret.exc = "CorpusException"
    /\ Len(pathsLocalTemp) = 2
    /\ Count(pathsLocalTemp, call.filePath.v) = 1
    /\ LocalKeys(pathsCache) # {}

\* C14: whenever addPath registers a new path it completes, with the path
\* appended to _pathsLocalTemp, every entry of _pathsCache keyed to 'local'
\* removed, and the entries keyed to the other domains as they were.
C14_LocalCacheDropped ==
    [][ ( /\ call'.op = "addPath"
          /\ ~IsInvalid(call')
          /\ ~IsAdded(call', pathsLocalTemp)
          /\ ~IsConfigured(call') )
        => /\ ret'.kind = "return"
           /\ pathsLocalTemp' = Append(pathsLocalTemp, call'.filePath.v)
           /\ pathsCache' = [ key \in (DOMAIN pathsCache) \ LocalKeys(pathsCache)
                                |-> pathsCache[key] ] ]_vars
====
